---------------------------- MODULE Spec2Model ----------------------------
(***************************************************************************)
(* Model of darklua's remove_interpolated_string rule                      *)
(* (src/rules/remove_interpolated_string.rs).                              *)
(*                                                                         *)
(* The rule lowers every interpolated string of a block to a call of a     *)
(* local alias of string.format, and declares that alias once at the top   *)
(* of the block when at least one call was generated.                      *)
(*                                                                         *)
(* Texts are sequences of one-character strings, so that the escaping of   *)
(* '%' is computed character by character.  Every syntax node is a record  *)
(* with a `kind` field.                                                    *)
(***************************************************************************)
EXTENDS Naturals, Sequences, FiniteSets

VARIABLES
    pc,            \* position of flawless_process: "idle", "visiting", "done"
    block,         \* the block handed to flawless_process, mutated in place
    input,         \* history: the block as it was when the call started
    todo,          \* expression slots the traversal still has to offer, in order
    processor,     \* the RemoveInterpolatedStringProcessor of the current call
    processed,     \* history: interpolated strings rewritten to a call so far
    earlier,       \* history: an earlier, completed call inserted a prelude
    rule,          \* the RemoveInterpolatedString value
    properties,    \* the property bag of the last configure call
    result,        \* what the last configure call returned
    serialized,    \* what the last serialize_to_properties call returned
    string,        \* replace_with in isolation: its argument
    replacement    \* replace_with in isolation: the expression it returned

vars == <<pc, block, input, todo, processor, processed, earlier,
          rule, properties, result, serialized, string, replacement>>

processVars == <<pc, block, input, todo, processor, processed, earlier>>
configVars == <<rule, properties, result, serialized>>
replaceVars == <<string, replacement>>

-----------------------------------------------------------------------------
(* Bounds of the inputs.                                                   *)

\* weight (nodes and segments) of a block handed to flawless_process
MaxBlockSize == 3
\* weight (characters and embedded values) of a string handed to replace_with
MaxStringSize == 3
\* number of entries of a property bag handed to configure
MaxProperties == 2

-----------------------------------------------------------------------------
(* Constants of the rule.                                                  *)

DEFAULT_STRING_LIBRARY == "string"
DEFAULT_STRING_FORMAT_NAME == "format"
STRING_FORMAT_IDENTIFIER == "__DARKLUA_STR_FMT"
REMOVE_INTERPOLATED_STRING_RULE_NAME == "remove_interpolated_string"

-----------------------------------------------------------------------------
(* Node model (crate::nodes): constructors.                                *)

Block(statements) == [kind |-> "Block", statements |-> statements]

LocalAssignStatement(variables, values) ==
    [kind |-> "LocalAssign", variables |-> variables, values |-> values]

DoStatement(b) == [kind |-> "Do", block |-> b]

TypedIdentifier(name) == name

PrefixFromName(name) == name

Identifier(name) == [kind |-> "Identifier", name |-> name]

StringExpression(value) == [kind |-> "String", value |-> value]

FieldExpression(prefix, field) ==
    [kind |-> "Field", prefix |-> prefix, field |-> field]

FunctionCall(prefix, arguments) ==
    [kind |-> "Call", prefix |-> prefix, arguments |-> arguments]

FunctionExpression(b) == [kind |-> "Function", block |-> b]

InterpolatedStringExpression(segments) ==
    [kind |-> "InterpolatedString", segments |-> segments]

StringSegment(value) == [kind |-> "StringSegment", value |-> value]

ValueSegment(expression) == [kind |-> "ValueSegment", expression |-> expression]

\* InterpolatedStringExpression::is_empty
is_empty(s) == Len(s.segments) = 0

\* Block::insert_statement
insert_statement(b, index, statement) ==
    LET n == Len(b.statements)
        at == IF index > n THEN n ELSE index
    IN  Block(SubSeq(b.statements, 1, at) \o <<statement>>
              \o SubSeq(b.statements, at + 1, n))

ExpressionKinds ==
    {"Identifier", "String", "Field", "Call", "Function", "InterpolatedString"}

IsExpression(n) == n.kind \in ExpressionKinds


-----------------------------------------------------------------------------
(* Traversal (crate::process::ScopeVisitor).  A node is addressed by the   *)
(* path of child indices that leads to it from the block.                  *)

\* the nodes directly below a node, in source order
Children(n) ==
    CASE n.kind = "Block" -> n.statements
      [] n.kind = "LocalAssign" -> n.values
      [] n.kind = "Do" -> <<n.block>>
      [] n.kind = "Function" -> <<n.block>>
      [] n.kind = "Call" -> n.arguments
      [] n.kind = "InterpolatedString" -> n.segments
      [] n.kind = "ValueSegment" -> <<n.expression>>
      [] OTHER -> <<>>

\* the node with its i-th child replaced by c
WithChild(n, i, c) ==
    CASE n.kind = "Block" -> [n EXCEPT !.statements[i] = c]
      [] n.kind = "LocalAssign" -> [n EXCEPT !.values[i] = c]
      [] n.kind = "Do" -> [n EXCEPT !.block = c]
      [] n.kind = "Function" -> [n EXCEPT !.block = c]
      [] n.kind = "Call" -> [n EXCEPT !.arguments[i] = c]
      [] n.kind = "InterpolatedString" -> [n EXCEPT !.segments[i] = c]
      [] n.kind = "ValueSegment" -> [n EXCEPT !.expression = c]

RECURSIVE NodeAt(_, _)
NodeAt(n, path) ==
    IF path = <<>> THEN n ELSE NodeAt(Children(n)[Head(path)], Tail(path))

RECURSIVE ReplaceAt(_, _, _)
ReplaceAt(n, path, c) ==
    IF path = <<>> THEN c
    ELSE WithChild(n, Head(path),
                   ReplaceAt(Children(n)[Head(path)], Tail(path), c))

\* The expressions that visiting node n (at `path`) offers to
\* process_expression before descending further: the nearest expressions
\* below n, in source order.
RECURSIVE ExpressionSlots(_, _)
RECURSIVE ExpressionSlotsFrom(_, _, _)
ExpressionSlotsFrom(n, path, i) ==
    IF i > Len(Children(n)) THEN <<>>
    ELSE LET c == Children(n)[i]
             here == Append(path, i)
         IN  (IF IsExpression(c) THEN <<here>> ELSE ExpressionSlots(c, here))
                \o ExpressionSlotsFrom(n, path, i + 1)

ExpressionSlots(n, path) == ExpressionSlotsFrom(n, path, 1)

-----------------------------------------------------------------------------
(* RemoveInterpolatedStringProcessor.                                      *)

\* mutant: the flag starts set
new_with_flag_set(string_format_identifier) ==
    [string_format_identifier |-> string_format_identifier,
     define_string_format |-> TRUE]

RemoveInterpolatedStringProcessor_new(string_format_identifier) ==
    [string_format_identifier |-> string_format_identifier,
     define_string_format |-> FALSE]

\* mutant: the text is pushed as it is
replace_nothing(text, from, to) == text

\* str::replace(from, to) for a one-character pattern
RECURSIVE replace(_, _, _)
replace(text, from, to) ==
    IF text = <<>> THEN <<>>
    ELSE (IF Head(text) = from THEN to ELSE <<Head(text)>>)
            \o replace(Tail(text), from, to)

\* mutant: the literal text is pushed without escaping
push_segment_raw(format_string, segment) ==
    IF segment.kind = "StringSegment"
    THEN format_string \o segment.value
    ELSE format_string \o <<"%", "*">>

\* the closure folded over the segments: one segment appended to the template
push_segment(format_string, segment) ==
    IF segment.kind = "StringSegment"
    THEN format_string \o replace(segment.value, "%", <<"%", "%">>)
    ELSE format_string \o <<"%", "*">>

\* string.iter_segments().fold(String::new(), ...)
RECURSIVE fold_format_string(_, _)
fold_format_string(format_string, segments) ==
    IF segments = <<>> THEN format_string
    ELSE fold_format_string(push_segment(format_string, Head(segments)),
                            Tail(segments))

\* mutant: the values are collected in reverse order
RECURSIVE filter_map_values_reversed(_)
filter_map_values_reversed(segments) ==
    IF segments = <<>> THEN <<>>
    ELSE filter_map_values_reversed(Tail(segments))
            \o (IF Head(segments).kind = "ValueSegment"
                THEN <<Head(segments).expression>> ELSE <<>>)

\* string.iter_segments().filter_map(...): the clones of the embedded values
RECURSIVE filter_map_values(_)
filter_map_values(segments) ==
    IF segments = <<>> THEN <<>>
    ELSE (IF Head(segments).kind = "ValueSegment"
          THEN <<Head(segments).expression>> ELSE <<>>)
            \o filter_map_values(Tail(segments))

\* iter::once(template).chain(values).collect::<TupleArguments>()
arguments(s) ==
    <<StringExpression(fold_format_string(<<>>, s.segments))>>
        \o filter_map_values(s.segments)

\* mutant: the flag is set before the emptiness test
replace_with_flag_first(self, s) ==
    IF is_empty(s)
    THEN [self |-> [self EXCEPT !.define_string_format = TRUE],
          expression |-> StringExpression(<<>>)]
    ELSE [self |-> [self EXCEPT !.define_string_format = TRUE],
          expression |->
            FunctionCall(PrefixFromName(self.string_format_identifier),
                         arguments(s))]

\* replace_with(&mut self, string) -> Expression
replace_with(self, s) ==
    IF is_empty(s)
    THEN [self |-> self, expression |-> StringExpression(<<>>)]
    ELSE [self |-> [self EXCEPT !.define_string_format = TRUE],
          expression |->
            FunctionCall(PrefixFromName(self.string_format_identifier),
                         arguments(s))]

\* mutant: strings without segments are left alone
process_expression_non_empty(self, expression) ==
    IF expression.kind = "InterpolatedString" /\ ~is_empty(expression)
    THEN replace_with(self, expression)
    ELSE [self |-> self, expression |-> expression]

\* NodeProcessor::process_expression(&mut self, expression)
process_expression(self, expression) ==
    IF expression.kind = "InterpolatedString"
    THEN replace_with(self, expression)
    ELSE [self |-> self, expression |-> expression]

-----------------------------------------------------------------------------
(* RemoveInterpolatedString: FlawlessRule.                                 *)

RemoveInterpolatedString == <<>>

\* local __DARKLUA_STR_FMT = string.format
PreludeStatement ==
    LocalAssignStatement(
        <<TypedIdentifier(STRING_FORMAT_IDENTIFIER)>>,
        <<FieldExpression(PrefixFromName(DEFAULT_STRING_LIBRARY),
                          DEFAULT_STRING_FORMAT_NAME)>>)

\* mutant: the prelude is pushed at the end of the block
insert_prelude_last(self, b) ==
    IF self.define_string_format
    THEN insert_statement(b, Len(b.statements), PreludeStatement)
    ELSE b

\* mutant: the prelude is inserted whatever the flag
insert_prelude_always(self, b) == insert_statement(b, 0, PreludeStatement)

\* the end of flawless_process: the prelude, when a call was generated
insert_prelude(self, b) ==
    IF self.define_string_format
    THEN insert_statement(b, 0, PreludeStatement)
    ELSE b

-----------------------------------------------------------------------------
(* RemoveInterpolatedString: RuleConfiguration.  A property bag is a       *)
(* function from keys to values.                                           *)

EmptyProperties == <<>>

Ok == [kind |-> "Ok"]

Err(error) == [kind |-> "Err", error |-> error]

UnexpectedProperty(key) == [kind |-> "UnexpectedProperty", property |-> key]

\* Display of a RuleConfigurationError
Display(error) == "unexpected field '" \o error.property \o "'"

\* mutant: unknown properties are ignored
configure_lenient(self, bag) == {[self |-> self, result |-> Ok]}

\* configure(&mut self, properties): the outcomes the call can have.  The
\* bag is a hash map, so the entry the loop meets first is any of them.
configure(self, bag) ==
    IF DOMAIN bag # {}
    THEN {[self |-> self, result |-> Err(UnexpectedProperty(key))] :
            key \in DOMAIN bag}
    ELSE {[self |-> self, result |-> Ok]}

get_name(self) == REMOVE_INTERPOLATED_STRING_RULE_NAME

\* mutant: the rule's name is written as a property
serialize_with_name(self) ==
    [key \in {"name"} |->
        [kind |-> "String", value |-> REMOVE_INTERPOLATED_STRING_RULE_NAME]]

serialize_to_properties(self) == EmptyProperties

-----------------------------------------------------------------------------
(* The blocks handed to flawless_process: every block of weight at most    *)
(* MaxBlockSize that a parser can produce, where each expression and each  *)
(* `do` statement weighs one.  Within an interpolated string the literal   *)
(* segments are never empty and never adjacent (the text between two       *)
(* values is one segment), and no input uses the reserved identifier.      *)
(* Each operator below yields the nodes of weight exactly n.               *)

RECURSIVE InputExpressions(_)
RECURSIVE InputSegmentLists(_)
RECURSIVE InputStatementLists(_)

\* the segment lists that do not start with a literal segment
InputSegmentListsByValue(n) ==
    IF n = 0 THEN {<<>>}
    ELSE UNION {{<<ValueSegment(e)>> \o r :
                    e \in InputExpressions(k), r \in InputSegmentLists(n - k)} :
                 k \in 1..n}

InputSegmentLists(n) ==
    UNION {{r, <<StringSegment(<<"x">>)>> \o r} : r \in InputSegmentListsByValue(n)}

InputExpressions(n) ==
    (IF n = 1 THEN {Identifier("a")} ELSE {})
        \cup {InterpolatedStringExpression(s) : s \in InputSegmentLists(n - 1)}
        \cup {FunctionExpression(Block(s)) : s \in InputStatementLists(n - 1)}

InputStatements(n) ==
    {LocalAssignStatement(<<TypedIdentifier("v")>>, <<e>>) :
        e \in InputExpressions(n)}
        \cup {DoStatement(Block(s)) : s \in InputStatementLists(n - 1)}

InputStatementLists(n) ==
    IF n = 0 THEN {<<>>}
    ELSE UNION {{<<x>> \o r :
                    x \in InputStatements(k), r \in InputStatementLists(n - k)} :
                 k \in 1..n}

InputBlocks ==
    UNION {{Block(s) : s \in InputStatementLists(n)} : n \in 0..MaxBlockSize}

(* The interpolated strings handed to replace_with in isolation: every     *)
(* list of segments of weight at most MaxStringSize, where a character of  *)
(* literal text and an embedded value weigh one each.                      *)

Alphabet == {"x", "%", "*"}

InputValues ==
    {Identifier("a"), Identifier("b"),
     InterpolatedStringExpression(<<ValueSegment(Identifier("a"))>>)}

RECURSIVE TextsOfLength(_)
TextsOfLength(n) ==
    IF n = 0 THEN {<<>>}
    ELSE {<<c>> \o t : c \in Alphabet, t \in TextsOfLength(n - 1)}

InputSegments(n) ==
    {StringSegment(t) : t \in TextsOfLength(n)}
        \cup (IF n = 1 THEN {ValueSegment(v) : v \in InputValues} ELSE {})

RECURSIVE InputSegmentsOfWeight(_)
InputSegmentsOfWeight(n) ==
    IF n = 0 THEN {<<>>}
    ELSE UNION {{<<x>> \o r :
                    x \in InputSegments(k), r \in InputSegmentsOfWeight(n - k)} :
                 k \in 1..n}

InputStrings ==
    UNION {{InterpolatedStringExpression(s) : s \in InputSegmentsOfWeight(n)} :
            n \in 0..MaxStringSize}

(* The property bags handed to configure: at most MaxProperties entries.   *)

PropertyKeys == {"prop", "name", "strategy", "max"}

PropertyValues == {[kind |-> "String", value |-> "something"],
                   [kind |-> "Boolean", value |-> "true"]}

PropertyBags ==
    UNION {[keys -> PropertyValues] :
            keys \in {k \in SUBSET PropertyKeys : Cardinality(k) <= MaxProperties}}

-----------------------------------------------------------------------------
(* flawless_process(&self, block, _), one step of the traversal at a time. *)

NoBlock == Block(<<>>)

NoExpression == [kind |-> "None"]

NoResult == [kind |-> "None"]

\* let mut processor = RemoveInterpolatedStringProcessor::new(...);
\* ScopeVisitor::visit_block(block, &mut processor) begins
Start ==
    /\ pc = "idle"
    /\ \E b \in InputBlocks :
        /\ block' = b
        /\ input' = b
        /\ todo' = ExpressionSlots(b, <<>>)
    /\ pc' = "visiting"
    /\ processor' = RemoveInterpolatedStringProcessor_new(STRING_FORMAT_IDENTIFIER)
    /\ processed' = 0
    /\ UNCHANGED <<earlier, configVars, replaceVars>>

\* visit_expression: the next expression is offered to process_expression,
\* then the traversal descends into what stands in its place
VisitExpression ==
    /\ pc = "visiting"
    /\ todo # <<>>
    /\ LET path == Head(todo)
           expression == NodeAt(block, path)
           r == process_expression(processor, expression)
       IN  /\ processor' = r.self
           /\ block' = ReplaceAt(block, path, r.expression)
           /\ todo' = ExpressionSlots(r.expression, path) \o Tail(todo)
           /\ processed' =
                IF expression.kind = "InterpolatedString" /\ ~is_empty(expression)
                THEN processed + 1 ELSE processed
    /\ UNCHANGED <<pc, input, earlier, configVars, replaceVars>>

\* the traversal is over: if processor.define_string_format { ... }
Finish ==
    /\ pc = "visiting"
    /\ todo = <<>>
    /\ pc' = "done"
    /\ block' = insert_prelude(processor, block)
    /\ UNCHANGED <<input, todo, processor, processed, earlier,
                   configVars, replaceVars>>

\* flawless_process returns; the rule is ready for another block
Return ==
    /\ pc = "done"
    /\ pc' = "idle"
    /\ earlier' = (earlier \/ processor.define_string_format)
    /\ block' = NoBlock
    /\ input' = NoBlock
    /\ processed' = 0
    /\ UNCHANGED <<todo, processor, configVars, replaceVars>>

Init ==
    /\ pc = "idle"
    /\ block = NoBlock
    /\ input = NoBlock
    /\ todo = <<>>
    /\ processor = RemoveInterpolatedStringProcessor_new(STRING_FORMAT_IDENTIFIER)
    /\ processed = 0
    /\ earlier = FALSE
    /\ rule = RemoveInterpolatedString
    /\ properties = EmptyProperties
    /\ result = NoResult
    /\ serialized = NoResult
    /\ string = InterpolatedStringExpression(<<>>)
    /\ replacement = NoExpression

Next ==
    \/ Start
    \/ VisitExpression
    \/ Finish
    \/ Return

Spec == Init /\ [][Next]_vars

-----------------------------------------------------------------------------
(* configure and serialize_to_properties.                                  *)

Configure(bag) ==
    /\ \E out \in configure(rule, bag) :
        /\ rule' = out.self
        /\ result' = out.result
    /\ properties' = bag
    /\ UNCHANGED <<serialized, processVars, replaceVars>>

Serialize ==
    /\ serialized' = serialize_to_properties(rule)
    /\ UNCHANGED <<rule, properties, result, processVars, replaceVars>>

\* the rule is configured from the bag it was serialized to
ConfigureSerialized ==
    /\ serialized # NoResult
    /\ Configure(serialized)

NextConfigure ==
    \/ \E bag \in PropertyBags : Configure(bag)
    \/ Serialize
    \/ ConfigureSerialized

SpecConfigure == Init /\ [][NextConfigure]_vars

-----------------------------------------------------------------------------
(* replace_with in isolation, on a fresh processor.                        *)

InitReplace ==
    /\ pc = "idle"
    /\ block = NoBlock
    /\ input = NoBlock
    /\ todo = <<>>
    /\ processor = RemoveInterpolatedStringProcessor_new(STRING_FORMAT_IDENTIFIER)
    /\ processed = 0
    /\ earlier = FALSE
    /\ rule = RemoveInterpolatedString
    /\ properties = EmptyProperties
    /\ result = NoResult
    /\ serialized = NoResult
    /\ string \in InputStrings
    /\ replacement = NoExpression

Replace ==
    /\ replacement = NoExpression
    /\ LET r == replace_with(processor, string)
       IN  /\ replacement' = r.expression
           /\ processor' = r.self
    /\ UNCHANGED <<pc, block, input, todo, processed, earlier, string, configVars>>

NextReplace == Replace

SpecReplace == InitReplace /\ [][NextReplace]_vars

-----------------------------------------------------------------------------
(* Vocabulary of the properties.                                           *)

\* every node of a tree, the root first, in source order
RECURSIVE Nodes(_)
RECURSIVE NodesFrom(_, _)
NodesFrom(n, i) ==
    IF i > Len(Children(n)) THEN <<>>
    ELSE Nodes(Children(n)[i]) \o NodesFrom(n, i + 1)

Nodes(n) == <<n>> \o NodesFrom(n, 1)

IsInterpolated(n) == n.kind = "InterpolatedString"

IsNonEmptyInterpolated(n) == IsInterpolated(n) /\ Len(n.segments) > 0

IsPrelude(n) == n = PreludeStatement

Count(n, Test(_)) == Len(SelectSeq(Nodes(n), Test))

\* the tree with every interpolated string without segments turned into ""
RECURSIVE WithoutEmptyStrings(_)
RECURSIVE WithoutEmptyStringsFrom(_, _)
WithoutEmptyStringsFrom(n, i) ==
    IF i > Len(Children(n)) THEN n
    ELSE WithoutEmptyStringsFrom(
            WithChild(n, i, WithoutEmptyStrings(Children(n)[i])), i + 1)

WithoutEmptyStrings(n) ==
    IF IsInterpolated(n) /\ Len(n.segments) = 0
    THEN StringExpression(<<>>)
    ELSE WithoutEmptyStringsFrom(n, 1)

\* the blocks nested in a block: bodies of `do` statements and of functions
NestedBlocks(b) == SelectSeq(NodesFrom(b, 1), LAMBDA n : n.kind = "Block")

Returned == pc = "done"

-----------------------------------------------------------------------------
(* Properties of flawless_process (specification Spec).                    *)

\* C1: a call on a block with two or more non-empty interpolated strings,
\* wherever they are, leaves exactly one prelude declaration in the whole
\* block: the first statement of the top-level block.
C1_SinglePrelude ==
    (Returned /\ Count(input, IsNonEmptyInterpolated) >= 2) =>
        /\ Len(block.statements) = Len(input.statements) + 1
        /\ block.statements[1] = PreludeStatement
        /\ Len(SelectSeq(block.statements, IsPrelude)) = 1
        /\ Count(block, IsPrelude) = 1

\* two non-empty interpolated strings, one at the top level and one in a
\* nested block
C1_Witness ==
    /\ Returned
    /\ Count(input, IsNonEmptyInterpolated) >= 2
    /\ \E i \in 1..Len(input.statements) :
        /\ input.statements[i].kind = "LocalAssign"
        /\ IsNonEmptyInterpolated(input.statements[i].values[1])
    /\ \E i \in 1..Len(NestedBlocks(input)) :
        Count(NestedBlocks(input)[i], IsNonEmptyInterpolated) >= 1
    /\ Count(block, IsPrelude) = 1

\* C4: while a block whose interpolated strings all have zero segments is
\* processed, the flag stays unset; the call returns the block with each of
\* them turned into the empty string literal, and without a prelude.
C4_EmptyInterpolation ==
    (pc \in {"visiting", "done"} /\ Count(input, IsNonEmptyInterpolated) = 0) =>
        /\ ~processor.define_string_format
        /\ Returned => /\ block = WithoutEmptyStrings(input)
                       /\ Count(block, IsPrelude) = 0
                       /\ Count(block, IsInterpolated) = 0

C4_Witness ==
    /\ Returned
    /\ Count(input, IsInterpolated) >= 1
    /\ Count(input, IsNonEmptyInterpolated) = 0
    /\ block # input
    /\ block = WithoutEmptyStrings(input)

\* C5: a call on a block without interpolated strings leaves the block as
\* it was, at every step and when it returns.
C5_NoInterpolation ==
    (pc \in {"visiting", "done"} /\ Count(input, IsInterpolated) = 0) =>
        block = input

C5_Witness ==
    /\ Returned
    /\ Count(input, IsInterpolated) = 0
    /\ Len(input.statements) >= 2
    /\ Len(NestedBlocks(input)) >= 1
    /\ block = input

\* C6: when the call returns, no interpolated string is left anywhere in
\* the block.
C6_AllRemoved == Returned => Count(block, IsInterpolated) = 0

\* an interpolated string inside a value segment of another one
C6_Witness ==
    /\ Returned
    /\ \E i \in 1..Len(Nodes(input)) :
        LET n == Nodes(input)[i]
        IN  /\ IsInterpolated(n)
            /\ \E j \in 1..Len(n.segments) :
                /\ n.segments[j].kind = "ValueSegment"
                /\ IsNonEmptyInterpolated(n.segments[j].expression)
    /\ Count(block, IsInterpolated) = 0

\* C9, in every state: during the traversal the flag is set exactly when a
\* non-empty interpolated string has been processed; the call processes
\* each non-empty interpolated string of its block once, and returns the
\* block with a prelude in front exactly when there was one.
C9_FlagTracksCall ==
    /\ pc = "visiting" => (processor.define_string_format <=> processed > 0)
    /\ Returned =>
        /\ processed = Count(input, IsNonEmptyInterpolated)
        /\ processor.define_string_format <=> processed > 0
        /\ Count(block, IsPrelude) = (IF processed > 0 THEN 1 ELSE 0)
        /\ Len(block.statements) =
                Len(input.statements) + (IF processed > 0 THEN 1 ELSE 0)

\* C9, in every step: a call starts with the flag unset, and a set flag
\* stays set until the call returns.
C9_FlagSteps ==
    /\ (pc = "idle" /\ pc' = "visiting") => ~processor'.define_string_format
    /\ (pc = "visiting" /\ processor.define_string_format) =>
            processor'.define_string_format

\* C9: the flag is false when a call starts, only ever goes from false to
\* true during the call, and is true at the end exactly when a non-empty
\* interpolated string was processed, so the prelude is inserted exactly
\* then, whatever earlier calls did.
C9_RunScopedFlag == [](C9_FlagTracksCall) /\ [][C9_FlagSteps]_vars

\* a call that inserts no prelude although it had strings to rewrite and
\* an earlier call inserted one
C9_Witness ==
    /\ Returned
    /\ earlier
    /\ Count(input, IsInterpolated) >= 1
    /\ ~processor.define_string_format
    /\ Count(block, IsPrelude) = 0

-----------------------------------------------------------------------------
(* Properties of replace_with (specification SpecReplace).                 *)

Replaced == replacement # NoExpression

\* the template of a generated call, and the arguments after it
TemplateOf(call) == call.arguments[1].value

\* s[i], or "" outside s
At(s, i) == IF i \in 1..Len(s) THEN s[i] ELSE ""

PercentCount(text) == Cardinality({i \in 1..Len(text) : text[i] = "%"})

\* what a segment adds to the length of the template
PieceLength(segment) ==
    IF segment.kind = "StringSegment"
    THEN Len(segment.value) + PercentCount(segment.value)
    ELSE 2

\* where the piece of the i-th segment starts in the template, less one
RECURSIVE PieceOffset(_, _)
PieceOffset(segments, i) ==
    IF i = 1 THEN 0
    ELSE PieceOffset(segments, i - 1) + PieceLength(segments[i - 1])

ValueSegments(segments) ==
    SelectSeq(segments, LAMBDA x : x.kind = "ValueSegment")

\* C2: the template is the segments' pieces one after the other: a literal
\* text with each '%' doubled and every other character as it is, and "%*"
\* at the place of each value.
C2_Template ==
    (Replaced /\ Len(string.segments) > 0) =>
        LET segments == string.segments
            template == TemplateOf(replacement)
        IN  /\ Len(template) = PieceOffset(segments, Len(segments) + 1)
            /\ \A i \in 1..Len(segments) :
                LET at == PieceOffset(segments, i)
                    text == segments[i].value
                IN  IF segments[i].kind = "ValueSegment"
                    THEN At(template, at + 1) = "%" /\ At(template, at + 2) = "*"
                    ELSE \A j \in 1..Len(text) :
                            LET q == at + j + PercentCount(SubSeq(text, 1, j - 1))
                            IN  /\ At(template, q) = text[j]
                                /\ text[j] = "%" => At(template, q + 1) = "%"

\* a literal '%' between two values
C2_Witness ==
    /\ Replaced
    /\ Len(ValueSegments(string.segments)) >= 2
    /\ \E i \in 2..Len(string.segments) :
        /\ string.segments[i].kind = "StringSegment"
        /\ PercentCount(string.segments[i].value) >= 1
        /\ string.segments[i - 1].kind = "ValueSegment"
    /\ PercentCount(TemplateOf(replacement)) >= 4

\* C3: the replacement of a non-empty interpolated string is a call of the
\* reserved identifier with the template literal first and then the
\* expression of each value segment, as it was, in segment order.
C3_CallArguments ==
    (Replaced /\ Len(string.segments) > 0) =>
        LET values == ValueSegments(string.segments)
        IN  /\ replacement.kind = "Call"
            /\ replacement.prefix = STRING_FORMAT_IDENTIFIER
            /\ replacement.arguments[1].kind = "String"
            /\ Len(replacement.arguments) = Len(values) + 1
            /\ \A i \in 1..Len(values) :
                replacement.arguments[i + 1] = values[i].expression

\* two different values around a literal text
C3_Witness ==
    /\ Replaced
    /\ Len(string.segments) = 3
    /\ string.segments[1].kind = "ValueSegment"
    /\ string.segments[2].kind = "StringSegment"
    /\ string.segments[3].kind = "ValueSegment"
    /\ string.segments[1].expression # string.segments[3].expression
    /\ replacement.arguments[2] = string.segments[1].expression
    /\ replacement.arguments[3] = string.segments[3].expression

\* a template read from left to right: plain characters, "%%" and "%*"
RECURSIVE TemplateWellFormed(_)
TemplateWellFormed(t) ==
    IF t = <<>> THEN TRUE
    ELSE IF Head(t) # "%" THEN TemplateWellFormed(Tail(t))
    ELSE /\ Len(t) >= 2
         /\ t[2] \in {"%", "*"}
         /\ TemplateWellFormed(SubSeq(t, 3, Len(t)))

\* the "%*" a left-to-right reader finds in a well-formed template
RECURSIVE TemplatePlaceholders(_)
TemplatePlaceholders(t) ==
    IF Len(t) < 2 THEN 0
    ELSE IF Head(t) # "%" THEN TemplatePlaceholders(Tail(t))
    ELSE (IF t[2] = "*" THEN 1 ELSE 0)
            + TemplatePlaceholders(SubSeq(t, 3, Len(t)))

\* C10: read from left to right, the template is made of plain characters,
\* "%%" and "%*" only, with as many "%*" as arguments follow the template.
C10_TemplateReadsBack ==
    (Replaced /\ Len(string.segments) > 0) =>
        /\ TemplateWellFormed(TemplateOf(replacement))
        /\ TemplatePlaceholders(TemplateOf(replacement))
                = Len(replacement.arguments) - 1
        /\ Len(replacement.arguments) - 1 = Len(ValueSegments(string.segments))

\* a literal text with a '*' that ends in '%', right before a value
C10_Witness ==
    /\ Replaced
    /\ \E i \in 1..(Len(string.segments) - 1) :
        LET text == string.segments[i].value
        IN  /\ string.segments[i].kind = "StringSegment"
            /\ text[Len(text)] = "%"
            /\ \E j \in 1..Len(text) : text[j] = "*"
            /\ string.segments[i + 1].kind = "ValueSegment"
    /\ TemplatePlaceholders(TemplateOf(replacement)) >= 1

-----------------------------------------------------------------------------
(* Properties of the configuration (specification SpecConfigure).          *)

Configured == result # NoResult

\* C7: configure succeeds on the empty bag only; on any other bag it fails
\* with UnexpectedProperty of one of the bag's keys, shown as
\* "unexpected field '<key>'", and the rule stays the default rule, which
\* serializes to the empty bag.
C7_UnexpectedProperty ==
    /\ rule = RemoveInterpolatedString
    /\ serialize_to_properties(rule) = EmptyProperties
    /\ Configured =>
        IF DOMAIN properties = {}
        THEN result = Ok
        ELSE /\ result.kind = "Err"
             /\ result.error.kind = "UnexpectedProperty"
             /\ result.error.property \in DOMAIN properties
             /\ \E key \in DOMAIN properties :
                    Display(result.error) = "unexpected field '" \o key \o "'"
             /\ DOMAIN properties = {"prop"} =>
                    Display(result.error) = "unexpected field 'prop'"

\* the bag of the test: the one entry prop: "something"
C7_Witness ==
    /\ Configured
    /\ DOMAIN properties = {"prop"}
    /\ properties["prop"].value = "something"
    /\ result = Err(UnexpectedProperty("prop"))

\* C8: whatever configure calls came before, the rule serializes to the
\* empty bag, and configuring it from that bag succeeds and leaves a rule
\* that serializes to the same bag.
C8_RoundTrip ==
    /\ serialized # NoResult => serialized = EmptyProperties
    /\ serialize_to_properties(rule) = EmptyProperties
    /\ \A out \in configure(rule, serialize_to_properties(rule)) :
        /\ out.result = Ok
        /\ serialize_to_properties(out.self) = serialize_to_properties(rule)
    /\ (Configured /\ serialized # NoResult /\ properties = serialized) =>
            result = Ok

\* the rule configured from the bag it was serialized to
C8_Witness ==
    /\ Configured
    /\ serialized = EmptyProperties
    /\ properties = serialized
    /\ result = Ok

=============================================================================
